---- MODULE Spec2Model ----
(***************************************************************************)
(* Model of create_icon.py: a one-shot script that draws a 32x32 RGBA icon *)
(* (a blue disc with a white "R" made of four rectangles) and saves it as  *)
(* icons/icon.ico and icons/icon.png.                                      *)
(*                                                                         *)
(* The state is the position of the interpreter in the script (pc), the    *)
(* in-memory image, the part of the file system the script touches, the    *)
(* exception in flight, and the ordered trace of the file-system calls and *)
(* console lines of the current run.  Every statement of the script is one *)
(* action.  A statement that calls into the operating system or the        *)
(* imaging library may raise; the console (print) is taken to accept every *)
(* line.                                                                   *)
(***************************************************************************)
EXTENDS Integers, Sequences, FiniteSets

\* ------------------------------------------------------------------ bounds
\* number of consecutive runs of the script that are explored
MaxRuns == 2

\* ------------------------------------------------------- program constants
size == 32

Transparent == <<0, 0, 0, 0>>
Blue        == <<52, 152, 219, 255>>
White       == <<255, 255, 255, 255>>

IconsDir == "icons"
IcoPath  == "icons/icon.ico"
PngPath  == "icons/icon.png"

\* variant: the disc is drawn after the glyph
ShapesCircleLast ==
  << [kind |-> "rectangle", box |-> <<8, 8, 12, 24>>,             fill |-> White],
     [kind |-> "rectangle", box |-> <<8, 8, 20, 12>>,             fill |-> White],
     [kind |-> "rectangle", box |-> <<8, 14, 18, 18>>,            fill |-> White],
     [kind |-> "rectangle", box |-> <<16, 18, 20, 24>>,           fill |-> White],
     [kind |-> "ellipse",   box |-> <<2, 2, size - 2, size - 2>>, fill |-> Blue] >>

\* the drawing recipe, in program order
Shapes ==
  << [kind |-> "ellipse",   box |-> <<2, 2, size - 2, size - 2>>, fill |-> Blue],
     [kind |-> "rectangle", box |-> <<8, 8, 12, 24>>,             fill |-> White],
     [kind |-> "rectangle", box |-> <<8, 8, 20, 12>>,             fill |-> White],
     [kind |-> "rectangle", box |-> <<8, 14, 18, 18>>,            fill |-> White],
     [kind |-> "rectangle", box |-> <<16, 18, 20, 24>>,           fill |-> White] >>

\* variant: the ICO is asked to hold a 16x16 frame besides the 32x32 one
IcoSizesMulti == << <<16, 16>>, <<32, 32>> >>

\* sizes=[(32, 32)] of the ICO save
IcoSizes == << <<32, 32>> >>

\* ------------------------------------------------------------- the canvas
Coords == (0 .. size - 1) \X (0 .. size - 1)

\* variant: the canvas starts opaque black instead of transparent
NewImageOpaque == [size |-> <<size, size>>, pixels |-> [p \in Coords |-> <<0, 0, 0, 255>>]]

\* Image.new('RGBA', (size, size), (0, 0, 0, 0)) followed by ImageDraw.Draw
NewImage == [size |-> <<size, size>>, pixels |-> [p \in Coords |-> Transparent]]

Abs(n) == IF n < 0 THEN -n ELSE n

\* Filled ellipse of the imaging library: a quarter of the outline is walked
\* from (a, b % 2) to (a % 2, b) in doubled coordinates relative to the
\* centre, each step going to the neighbour (up, up-left, left) that deviates
\* least from the ellipse equation; each row is then filled between the
\* outermost outline points, mirrored into the four quadrants.
quarter_delta(a, b, x, y) == Abs(a * a * y * y + b * b * x * x - a * a * b * b)

quarter_next(a, b, cx, cy) ==
  LET d0 == quarter_delta(a, b, cx, cy + 2)
      d1 == quarter_delta(a, b, cx - 2, cy + 2)
      d2 == quarter_delta(a, b, cx - 2, cy)
      n1 == IF cx > 1 /\ d0 > d1 THEN <<cx - 2, cy + 2>> ELSE <<cx, cy + 2>>
      e1 == IF cx > 1 /\ d0 > d1 THEN d1 ELSE d0
  IN  IF cx > 1 /\ e1 > d2 THEN <<cx - 2, cy>> ELSE n1

RECURSIVE quarter_points(_, _, _, _)
quarter_points(a, b, cx, cy) ==
  IF cx = a % 2 /\ cy = b
    THEN {<<cx, cy>>}
    ELSE LET n == quarter_next(a, b, cx, cy)
         IN  {<<cx, cy>>} \cup quarter_points(a, b, n[1], n[2])

SetMax(S) == CHOOSE m \in S : \A n \in S : n <= m

EllipsePixels(box) ==
  LET x0 == box[1]
      y0 == box[2]
      a  == box[3] - box[1]
      b  == box[4] - box[2]
      Q  == quarter_points(a, b, a, b % 2)
      r(y) == SetMax({q[1] : q \in {t \in Q : t[2] = y}})
      hline(xa, y, xb) == {<<x, y>> : x \in xa .. xb}
  IN  Coords \cap UNION {hline(x0 + (a - r(q[2])) \div 2,
                               y0 + (s * q[2] + b) \div 2,
                               x0 + (a + r(q[2])) \div 2) : q \in Q, s \in {-1, 1}}

\* Filled rectangle: both corners are inclusive
RectanglePixels(box) ==
  {p \in Coords : /\ box[1] <= p[1] /\ p[1] <= box[3]
                  /\ box[2] <= p[2] /\ p[2] <= box[4]}

ShapePixels(s) ==
  IF s.kind = "ellipse" THEN EllipsePixels(s.box) ELSE RectanglePixels(s.box)

\* the pixel sets of the five shapes, computed once
ShapeMask == [i \in 1 .. Len(Shapes) |-> ShapePixels(Shapes[i])]

\* draw.ellipse / draw.rectangle with fill=...: the covered pixels are
\* replaced by the fill colour, the others are kept
DrawShape(im, i) ==
  [im EXCEPT !.pixels = [p \in Coords |->
      IF p \in ShapeMask[i] THEN Shapes[i].fill ELSE im.pixels[p]]]


\* ------------------------------------------------------------ file system
\* what a path under icons/ can hold; an image file is a container format
\* and the frames stored in it (each with its size and pixels)
Absent    == [format |-> "absent", frames |-> <<>>]
Truncated == [format |-> "empty",  frames |-> <<>>]
Junk      == [format |-> "junk",   frames |-> <<>>]

Paths == {IcoPath, PngPath}

\* The encoders are lossless for a 32x32 RGBA image.  The ICO encoder stores
\* one frame per requested size that is not larger than the image; a frame
\* of the image's own size is the image itself, a smaller one is resampled
\* (taken here as the top-left sample of each block).
Resample(im, sz) ==
  IF sz = im.size THEN im
  ELSE [size   |-> sz,
        pixels |-> [p \in (0 .. sz[1] - 1) \X (0 .. sz[2] - 1) |->
                      im.pixels[<<(p[1] * im.size[1]) \div sz[1],
                                  (p[2] * im.size[2]) \div sz[2]>>]]]

RECURSIVE IcoFrames(_, _)
IcoFrames(im, sizes) ==
  IF sizes = <<>> THEN <<>>
  ELSE LET sz   == Head(sizes)
           rest == IcoFrames(im, Tail(sizes))
       IN  IF sz[1] <= im.size[1] /\ sz[2] <= im.size[2]
             THEN <<Resample(im, sz)>> \o rest
             ELSE rest

\* image.save('icons/icon.ico', format='ICO', sizes=[(32, 32)])
EncodeICO(im) == [format |-> "ICO", frames |-> IcoFrames(im, IcoSizes)]

\* image.save('icons/icon.png', format='PNG')
EncodePNG(im) == [format |-> "PNG", frames |-> <<im>>]

\* what an image reader sees in a file
IsImageFile(f) == f.format \in {"ICO", "PNG"} /\ Len(f.frames) >= 1
FrameSizes(f)  == [i \in 1 .. Len(f.frames) |-> f.frames[i].size]

\* -------------------------------------------------------------- exceptions
NoExc == [cls |-> "none", msg |-> ""]

ModuleNotFound == [cls |-> "ModuleNotFoundError", msg |-> "No module named 'PIL'"]
ImportErr      == [cls |-> "ImportError",         msg |-> "cannot import name"]
MemoryErr      == [cls |-> "MemoryError",         msg |-> "out of memory"]
FileExists     == [cls |-> "FileExistsError",     msg |-> "File exists: 'icons'"]
PermissionErr  == [cls |-> "PermissionError",     msg |-> "Permission denied"]
NoSpaceErr     == [cls |-> "OSError",             msg |-> "No space left on device"]

\* what a call into the imaging library can raise, and what a call that
\* touches the file system can raise in addition
LibErrors == {MemoryErr, ImportErr}
OSErrors  == {PermissionErr, NoSpaceErr}

\* except ImportError: matches ImportError and its subclass
IsImportError(e) == e.cls \in {"ImportError", "ModuleNotFoundError"}
\* except Exception: matches every exception modelled here
IsException(e) == e.cls # "none"

\* ----------------------------------------------------------------- notices
SuccessNotice(path) == [op |-> "print", kind |-> "success",     text |-> path, ok |-> TRUE]
MissingDepNotice    == [op |-> "print", kind |-> "missing_dep", text |-> "pip install Pillow", ok |-> TRUE]
FailureNotice(e)    == [op |-> "print", kind |-> "failure",     text |-> e.msg, ok |-> TRUE]

\* a file-system call of the run and whether it returned normally
FsCall(op, path, ok) == [op |-> op, kind |-> "fs", text |-> path, ok |-> ok]

\* ------------------------------------------------------------------- state
VARIABLES
  pc,       \* the statement the interpreter is at
  pillow,   \* whether the PIL package can be imported
  image,    \* the canvas, NoImage before it is allocated
  drawn,    \* how many of Shapes have been drawn
  icons,    \* the path icons: "absent", "dir" or "file"
  files,    \* the contents of icons/icon.ico and icons/icon.png
  exc,      \* the exception in flight, NoExc if none
  events,   \* file-system calls and console lines of this run, in order
  run,      \* the number of this run
  start     \* what this run found: whether the run before it succeeded,
            \* and the directory and files as they were when it began

vars == <<pc, pillow, image, drawn, icons, files, exc, events, run, start>>

NoImage == [size |-> <<0, 0>>, pixels |-> <<>>]

\* the statements inside the try block of lines 35-36
TryBody == {"new", "draw", "makedirs", "save_ico", "print_ico", "save_png", "print_png"}

\* variant: no statement is covered by the try block
PropagateNoTry(p) == "traceback"

\* an exception raised at statement p goes to the handlers when p is inside
\* the try block and leaves the program otherwise
Propagate(p) == IF p \in TryBody THEN "except" ELSE "traceback"

Init ==
  /\ pc = "import"
  /\ pillow \in BOOLEAN
  /\ image = NoImage
  /\ drawn = 0
  /\ icons \in {"absent", "dir", "file"}
  /\ files \in [Paths -> IF icons = "dir" THEN {Absent, Junk} ELSE {Absent}]
  /\ exc = NoExc
  /\ events = <<>>
  /\ run = 1
  /\ start = [ok |-> FALSE, icons |-> icons, files |-> files]

\* line 6: from PIL import Image, ImageDraw (and line 7, 9, 34-36: the
\* definition of create_simple_icon and the call inside try)
Import ==
  /\ pc = "import"
  /\ pillow
  /\ pc' = "new"
  /\ UNCHANGED <<pillow, image, drawn, icons, files, exc, events, run, start>>

\* variant: the import is done lazily, after the output directory is made
ImportFailsAfterMakeDirs ==
  /\ pc = "import"
  /\ ~pillow
  /\ exc' = ModuleNotFound
  /\ pc' = Propagate(pc)
  /\ icons' = IF icons = "absent" THEN "dir" ELSE icons
  /\ UNCHANGED <<pillow, image, drawn, files, events, run, start>>

\* line 6 when PIL is not installed: ModuleNotFoundError at module level
ImportFails ==
  /\ pc = "import"
  /\ ~pillow
  /\ exc' = ModuleNotFound
  /\ pc' = Propagate(pc)
  /\ UNCHANGED <<pillow, image, drawn, icons, files, events, run, start>>

\* lines 11-13
NewCanvas ==
  /\ pc = "new"
  /\ image' = NewImage
  /\ drawn' = 0
  /\ pc' = "draw"
  /\ UNCHANGED <<pillow, icons, files, exc, events, run, start>>

\* lines 17-23: the next shape of the recipe
Draw ==
  /\ pc = "draw"
  /\ drawn < Len(Shapes)
  /\ image' = DrawShape(image, drawn + 1)
  /\ drawn' = drawn + 1
  /\ pc' = IF drawn + 1 = Len(Shapes) THEN "makedirs" ELSE "draw"
  /\ UNCHANGED <<pillow, icons, files, exc, events, run, start>>

\* lines 12-23: a library call raises
DrawingRaises ==
  /\ pc \in {"new", "draw"}
  /\ \E e \in LibErrors : exc' = e
  /\ pc' = Propagate(pc)
  /\ UNCHANGED <<pillow, image, drawn, icons, files, events, run, start>>

\* line 26: os.makedirs('icons', exist_ok=True)
MakeDirs ==
  /\ pc = "makedirs"
  /\ icons \in {"absent", "dir"}
  /\ icons' = "dir"
  /\ events' = Append(events, FsCall("makedirs", IconsDir, TRUE))
  /\ pc' = "save_ico"
  /\ UNCHANGED <<pillow, image, drawn, files, exc, run, start>>

\* variant: exist_ok is left out, so an existing icons path always raises
MakeDirsRaisesIfExists ==
  /\ pc = "makedirs"
  /\ \E e \in (IF icons = "absent" THEN OSErrors ELSE {FileExists}) : exc' = e
  /\ events' = Append(events, FsCall("makedirs", IconsDir, FALSE))
  /\ pc' = Propagate(pc)
  /\ UNCHANGED <<pillow, image, drawn, icons, files, run, start>>

\* line 26 raising: icons is a regular file, or the directory cannot be made
MakeDirsRaises ==
  /\ pc = "makedirs"
  /\ icons # "dir"
  /\ \E e \in (IF icons = "file" THEN {FileExists} ELSE OSErrors) : exc' = e
  /\ events' = Append(events, FsCall("makedirs", IconsDir, FALSE))
  /\ pc' = Propagate(pc)
  /\ UNCHANGED <<pillow, image, drawn, icons, files, run, start>>

\* variant: an existing file is kept instead of being overwritten
SaveKeepsExisting(at, path, content, next) ==
  /\ pc = at
  /\ files' = [files EXCEPT ![path] = IF files[path] = Absent THEN content ELSE files[path]]
  /\ events' = Append(events, FsCall("save", path, TRUE))
  /\ pc' = next
  /\ UNCHANGED <<pillow, image, drawn, icons, exc, run, start>>

\* image.save(path, ...): the file is replaced by the encoded canvas
Save(at, path, content, next) ==
  /\ pc = at
  /\ files' = [files EXCEPT ![path] = content]
  /\ events' = Append(events, FsCall("save", path, TRUE))
  /\ pc' = next
  /\ UNCHANGED <<pillow, image, drawn, icons, exc, run, start>>

\* variant: a failed save is swallowed and the script goes on to the print
SaveRaisesSwallowed(at, path) ==
  /\ pc = at
  /\ \E c \in {files[path], Truncated} : files' = [files EXCEPT ![path] = c]
  /\ events' = Append(events, FsCall("save", path, FALSE))
  /\ pc' = IF at = "save_ico" THEN "print_ico" ELSE "print_png"
  /\ UNCHANGED <<pillow, image, drawn, icons, exc, run, start>>

\* image.save(path, ...) raising: the file is untouched when it could not be
\* opened, and is left truncated when the failure came after it was opened
SaveRaises(at, path) ==
  /\ pc = at
  /\ \E e \in OSErrors \cup LibErrors : exc' = e
  /\ \E c \in {files[path], Truncated} : files' = [files EXCEPT ![path] = c]
  /\ events' = Append(events, FsCall("save", path, FALSE))
  /\ pc' = Propagate(pc)
  /\ UNCHANGED <<pillow, image, drawn, icons, run, start>>

\* print("... icons/icon.xxx")
PrintSuccess(at, path, next) ==
  /\ pc = at
  /\ events' = Append(events, SuccessNotice(path))
  /\ pc' = next
  /\ UNCHANGED <<pillow, image, drawn, icons, files, exc, run, start>>

\* line 27
SaveIco == Save("save_ico", IcoPath, EncodeICO(image), "print_ico")
SaveIcoRaises == SaveRaises("save_ico", IcoPath)
\* line 28
PrintIco == PrintSuccess("print_ico", IcoPath, "save_png")
\* line 31
SavePng == Save("save_png", PngPath, EncodePNG(image), "print_png")
SavePngRaises == SaveRaises("save_png", PngPath)
\* line 32, after which the function returns and the program ends
PrintPng == PrintSuccess("print_png", PngPath, "exit")

\* lines 37-38
HandleImportError ==
  /\ pc = "except"
  /\ IsImportError(exc)
  /\ events' = Append(events, MissingDepNotice)
  /\ exc' = NoExc
  /\ pc' = "exit"
  /\ UNCHANGED <<pillow, image, drawn, icons, files, run, start>>

\* variant: the handler removes what the run wrote before reporting
HandleExceptionCleanup ==
  /\ pc = "except"
  /\ ~IsImportError(exc)
  /\ IsException(exc)
  /\ files' = [p \in Paths |-> Absent]
  /\ events' = Append(events, FailureNotice(exc))
  /\ exc' = NoExc
  /\ pc' = "exit"
  /\ UNCHANGED <<pillow, image, drawn, icons, run, start>>

\* lines 39-40
HandleException ==
  /\ pc = "except"
  /\ ~IsImportError(exc)
  /\ IsException(exc)
  /\ events' = Append(events, FailureNotice(exc))
  /\ exc' = NoExc
  /\ pc' = "exit"
  /\ UNCHANGED <<pillow, image, drawn, icons, files, run, start>>

\* the process has ended: normally, or with an uncaught exception
Ended == pc \in {"exit", "traceback"}

\* the run ended normally and no step of it failed
Succeeded ==
  /\ pc = "exit"
  /\ \A i \in 1 .. Len(events) : events[i].ok /\ events[i].kind \in {"fs", "success"}

\* the script is started again in the directory the last run left
Rerun ==
  /\ Ended
  /\ run < MaxRuns
  /\ start' = [ok |-> Succeeded, icons |-> icons, files |-> files]
  /\ run' = run + 1
  /\ pc' = "import"
  /\ image' = NoImage
  /\ drawn' = 0
  /\ exc' = NoExc
  /\ events' = <<>>
  /\ UNCHANGED <<pillow, icons, files>>

Next ==
  \/ Import
  \/ ImportFails
  \/ NewCanvas
  \/ Draw
  \/ DrawingRaises
  \/ MakeDirs
  \/ MakeDirsRaises
  \/ SaveIco
  \/ SaveIcoRaises
  \/ PrintIco
  \/ SavePng
  \/ SavePngRaises
  \/ PrintPng
  \/ HandleImportError
  \/ HandleException
  \/ Rerun

Spec == Init /\ [][Next]_vars

\* ===================================================================
\* Properties
\* ===================================================================

\* the console lines of the run, in order
Out == SelectSeq(events, LAMBDA e : e.op = "print")

HasEvent(e) == \E i \in 1 .. Len(events) : events[i] = e

\* the shapes as the specification lists them
SpecCircleBox == <<2, 2, 30, 30>>
SpecRects == {<<8, 8, 12, 24>>, <<8, 8, 20, 12>>, <<8, 14, 18, 18>>, <<16, 18, 20, 24>>}

InSpecRect(p) ==
  \E b \in SpecRects : b[1] <= p[1] /\ p[1] <= b[3] /\ b[2] <= p[2] /\ p[2] <= b[4]

\* squared distance of a pixel from the centre of the circle's box, and the
\* radius of the circle inscribed in it
CentreDist2(p) ==
  LET cx == (SpecCircleBox[1] + SpecCircleBox[3]) \div 2
      cy == (SpecCircleBox[2] + SpecCircleBox[4]) \div 2
  IN  (p[1] - cx) * (p[1] - cx) + (p[2] - cy) * (p[2] - cy)
SpecRadius == (SpecCircleBox[3] - SpecCircleBox[1]) \div 2

\* the pixels of the glyph; those no shape of the recipe covers; those
\* farther than radius + 1 from the centre; those strictly inside the circle
GlyphPixels     == {p \in Coords : InSpecRect(p)}
UncoveredPixels == {p \in Coords : p \notin ShapeMask[1] /\ ~InSpecRect(p)}
FarPixels       == {p \in Coords : CentreDist2(p) >= (SpecRadius + 1) * (SpecRadius + 1)
                                     /\ ~InSpecRect(p)}
DiscOnlyPixels  == {p \in Coords : CentreDist2(p) < SpecRadius * SpecRadius
                                     /\ ~InSpecRect(p)}

\* C1: when a run ends with no step having failed, icons/icon.ico and
\* icons/icon.png both exist, are non-empty image files, each holds exactly one
\* frame of 32x32 pixels, and both frames are the final canvas.
C1_OutputsAfterSuccess ==
  Succeeded =>
    /\ icons = "dir"
    /\ drawn = Len(Shapes)
    /\ \A p \in Paths :
         /\ files[p] \notin {Absent, Truncated}
         /\ IsImageFile(files[p])
         /\ FrameSizes(files[p]) = << <<32, 32>> >>
         /\ files[p].frames[1].pixels = image.pixels
    /\ files[IcoPath].format = "ICO"
    /\ files[PngPath].format = "PNG"
    /\ files[IcoPath].frames = files[PngPath].frames

\* a run over junk left at both paths has ended with no step failing
C1_Witness ==
  /\ Succeeded
  /\ start.files = [p \in Paths |-> Junk]

\* C2: when PIL cannot be imported, the program ends normally having printed
\* the missing-dependency notice that names pip install Pillow.
C2_MissingDependencyNoticed ==
  (~pillow /\ Ended) => (pc = "exit" /\ HasEvent(MissingDepNotice))

\* C3: when PIL cannot be imported, no canvas is ever allocated or drawn, the
\* icons path and both files stay as the run found them, no file-system call
\* is made and no success notice is printed.
C3_NoEffectWithoutPillow ==
  ~pillow =>
    /\ image = NoImage
    /\ drawn = 0
    /\ icons = start.icons
    /\ files = start.files
    /\ \A i \in 1 .. Len(events) : events[i].kind \notin {"fs", "success"}

\* a run without PIL has ended, in a directory that had no icons path
C3_Witness ==
  /\ ~pillow
  /\ Ended
  /\ start.icons = "absent"

\* C4: an exception other than an ImportError raised inside
\* create_simple_icon stops the run at that statement, is answered by exactly
\* one failure notice carrying the exception's message, and the program then
\* ends normally; only a missing dependency can leave the program uncaught.
C4_GenericFailureHandled ==
  /\ [](pc = "traceback" => IsImportError(exc))
  /\ [](\A i \in 1 .. Len(events) :
          events[i].kind = "failure" => (i = Len(events) /\ pc = "exit"))
  /\ [][(pc \in TryBody /\ exc' # NoExc /\ ~IsImportError(exc'))
          => (pc' = "except" /\ image' = image /\ drawn' = drawn /\ Out' = Out)]_vars
  /\ [][(pc = "except" /\ ~IsImportError(exc))
          => (pc' = "exit" /\ events' = Append(events, FailureNotice(exc)))]_vars

\* the png write was refused and the run ended with the notice of it
C4_Witness ==
  /\ pc = "exit"
  /\ Len(events) = 5
  /\ events[4] = FsCall("save", PngPath, FALSE)
  /\ events[5] = FailureNotice(PermissionErr)

\* the canvas after the whole recipe, and the two files encoded from it
RECURSIVE DrawAll(_, _)
DrawAll(im, n) == IF n = 0 THEN im ELSE DrawShape(DrawAll(im, n - 1), n)

ExpectedFiles ==
  LET final == DrawAll(NewImage, Len(Shapes))
  IN  [p \in Paths |-> IF p = IcoPath THEN EncodeICO(final) ELSE EncodePNG(final)]

\* C5: a run in which no step fails leaves the same two files whatever was at
\* the paths before; after a successful run, a second successful run leaves
\* both files exactly as the first left them, and the directory and files
\* left by the first run never make the directory step of the second fail.
C5_IdempotentByOverwrite ==
  /\ Succeeded => files = ExpectedFiles
  /\ (Succeeded /\ start.ok) => files = start.files
  /\ start.ok => ~HasEvent(FsCall("makedirs", IconsDir, FALSE))

\* a second run has succeeded after a successful first run
C5_Witness ==
  /\ run = 2
  /\ start.ok
  /\ Succeeded

\* C6: the circle is drawn first and the rectangles after it, so every pixel
\* of a glyph rectangle is opaque white once all shapes are drawn; pixel
\* (16,16), inside the circle and a rectangle, is blue after the circle alone
\* and white in the final canvas.
C6_GlyphOccludesCircle ==
  /\ drawn = 1 => image.pixels[<<16, 16>>] = <<52, 152, 219, 255>>
  /\ drawn = 5 =>
       /\ \A p \in GlyphPixels : image.pixels[p] = <<255, 255, 255, 255>>
       /\ InSpecRect(<<16, 16>>)
       /\ CentreDist2(<<16, 16>>) < SpecRadius * SpecRadius
       /\ image.pixels[<<16, 16>>] = <<255, 255, 255, 255>>

\* all five shapes are drawn
C6_Witness ==
  /\ drawn = 5
  /\ pc = "makedirs"

\* C7: in the final canvas a pixel that no shape covers is fully transparent,
\* which includes every pixel farther than radius + 1 from the centre and
\* pixel (0,0); a pixel strictly inside the circle and outside the four
\* rectangles is (52,152,219,255), as is pixel (4,16); and every pixel is
\* transparent, that blue, or opaque white.
C7_FinalPixelValues ==
  drawn = 5 =>
    /\ \A p \in UncoveredPixels : image.pixels[p] = <<0, 0, 0, 0>>
    /\ \A p \in FarPixels : image.pixels[p] = <<0, 0, 0, 0>>
    /\ \A p \in DiscOnlyPixels : image.pixels[p] = <<52, 152, 219, 255>>
    /\ \A p \in Coords :
         image.pixels[p] \in {<<0, 0, 0, 0>>, <<52, 152, 219, 255>>, <<255, 255, 255, 255>>}
    /\ <<0, 0>> \in FarPixels
    /\ <<4, 16>> \in DiscOnlyPixels
    /\ image.pixels[<<0, 0>>] = <<0, 0, 0, 0>>
    /\ ~InSpecRect(<<4, 16>>)
    /\ image.pixels[<<4, 16>>] = <<52, 152, 219, 255>>

\* the finished canvas has been saved to both files
C7_Witness ==
  /\ drawn = 5
  /\ pc = "print_png"

\* C8: a success notice directly follows the successful save of the file it
\* names and nothing else; a successful save is followed by its notice before
\* any other step; the save of icon.png comes after the notice for icon.ico;
\* and when the run has ended, a file has a notice exactly when its save
\* succeeded, the file then being the encoded image.
C8_NoticeIffWritten ==
  /\ \A i \in 1 .. Len(events) :
       events[i].kind = "success" =>
         (i > 1 /\ events[i - 1] = FsCall("save", events[i].text, TRUE))
  /\ \A i \in 1 .. Len(events) :
       (events[i].op = "save" /\ events[i].ok) =>
         IF i = Len(events)
           THEN pc = (IF events[i].text = IcoPath THEN "print_ico" ELSE "print_png")
           ELSE events[i + 1] = SuccessNotice(events[i].text)
  /\ \A j \in 1 .. Len(events) :
       (events[j].op = "save" /\ events[j].text = PngPath) =>
         \E i \in 1 .. j - 1 : events[i] = SuccessNotice(IcoPath)
  /\ \A p \in Paths :
       /\ HasEvent(SuccessNotice(p)) => IsImageFile(files[p])
       /\ Ended => (HasEvent(SuccessNotice(p)) <=> HasEvent(FsCall("save", p, TRUE)))

\* icon.ico was written and announced, the write of icon.png failed
C8_Witness ==
  /\ Ended
  /\ HasEvent(SuccessNotice(IcoPath))
  /\ HasEvent(FsCall("save", PngPath, FALSE))
  /\ ~HasEvent(SuccessNotice(PngPath))

\* C9: a save is attempted only after os.makedirs returned normally, icons
\* then being a directory; a missing icons is created by that step; an
\* existing directory never makes the step fail and the step changes nothing.
C9_DirectoryEnsuredFirst ==
  /\ pc \in {"save_ico", "print_ico", "save_png", "print_png"} =>
       (icons = "dir" /\ Len(events) >= 1 /\ events[1] = FsCall("makedirs", IconsDir, TRUE))
  /\ \A j \in 1 .. Len(events) :
       events[j].op = "save" =>
         (j > 1 /\ events[1] = FsCall("makedirs", IconsDir, TRUE) /\ icons = "dir")
  /\ start.icons = "dir" =>
       /\ icons = "dir"
       /\ ~HasEvent(FsCall("makedirs", IconsDir, FALSE))
       /\ pc = "save_ico" => files = start.files
  /\ (start.icons = "absent" /\ HasEvent(FsCall("makedirs", IconsDir, TRUE))) => icons = "dir"

\* the directory was missing and has just been created
C9_Witness ==
  /\ start.icons = "absent"
  /\ pc = "save_ico"
  /\ icons = "dir"

\* C10: nothing is undone and nothing is tried twice: each path is the target
\* of at most one file-system call per run; when the write of icon.png fails,
\* icon.ico stays as written and its success notice stays, followed only by
\* the one failure notice; when the write of icon.ico fails, icons stays a
\* directory and icon.png is neither written nor attempted.
C10_NoRollbackNoRetry ==
  /\ \A i, j \in 1 .. Len(events) :
       (i < j /\ events[i].kind = "fs" /\ events[j].kind = "fs")
         => events[i].text # events[j].text
  /\ Cardinality({i \in 1 .. Len(events) : events[i].kind \in {"failure", "missing_dep"}}) <= 1
  /\ HasEvent(FsCall("save", PngPath, FALSE)) =>
       /\ files[IcoPath] = EncodeICO(image)
       /\ Len(events) >= 4
       /\ events[3] = SuccessNotice(IcoPath)
       /\ events[4] = FsCall("save", PngPath, FALSE)
       /\ Ended => (Len(events) = 5 /\ events[5].kind \in {"failure", "missing_dep"})
  /\ HasEvent(FsCall("save", IcoPath, FALSE)) =>
       /\ icons = "dir"
       /\ files[PngPath] = start.files[PngPath]
       /\ \A i \in 1 .. Len(events) : events[i].text # PngPath
       /\ Ended => (Len(events) = 3 /\ events[3].kind \in {"failure", "missing_dep"})

\* the write of icon.png failed after icon.ico was written, and the run ended
C10_Witness ==
  /\ Ended
  /\ start.icons = "absent"
  /\ HasEvent(FsCall("save", PngPath, FALSE))
  /\ files[IcoPath] # Absent

====
